---------------------------- MODULE Spec2Model ----------------------------
(***************************************************************************)
(* A model of cleaning.py: six helper functions over a pandas DataFrame.   *)
(*                                                                         *)
(* A dataset is the sequence of its columns, in column order.  A column is *)
(* a record [name, dtype, cat, vals]: its label, the dtype of its elements *)
(* ("number", "object" or "datetime"), whether it is stored as a pandas    *)
(* categorical, and its cells in row order.  A label is the sequence of    *)
(* its characters, so that the string methods of clean_headers are         *)
(* computed character by character.                                        *)
(*                                                                         *)
(* Library behaviour is that of current pandas / numpy / scikit-learn:     *)
(* NaN compares false with 0, DataFrame.drop returns a new object,         *)
(* df[name] = x overwrites an existing column in place and appends a new   *)
(* one, LabelEncoder sorts the distinct values with the missing value last.*)
(***************************************************************************)
EXTENDS Integers, Sequences, FiniteSets

VARIABLES
    df,        \* the caller's DataFrame object (its columns), mutated in place
    pre,       \* the caller's DataFrame as it was when the last call started
    call,      \* the last call: function name and arguments
    ret,       \* what the last call returned (or that it raised)
    defaults,  \* the module-level default list objects of the three def lines
    calls      \* number of calls made so far

vars == <<df, pre, call, ret, defaults, calls>>

-----------------------------------------------------------------------------
(* Bounds of the model.                                                    *)

MaxRows == 3

MaxTimeRows == 2

MaxNameLen == 2

MaxCalls == 2

-----------------------------------------------------------------------------
(* Cells.                                                                  *)

Num(i) == [k |-> "num", n |-> i, s |-> ""]

Str(x) == [k |-> "str", n |-> 0, s |-> x]

Ts(y, m, d) == [k |-> "ts", n |-> y * 10000 + m * 100 + d, s |-> ""]

NaN == [k |-> "na", n |-> 0, s |-> ""]

isnull(v) == v.k = "na"

\* Every string cell of the model, in Python's str order (code points).
Lexicon ==
    << "April", "August", "Autumn", "December", "February", "Friday",
       "January", "July", "June", "March", "May", "Monday", "November",
       "October", "Saturday", "September", "Spring", "Summer", "Sunday",
       "Thursday", "Tuesday", "Wednesday", "Winter", "maybe", "no", "yes" >>

StrRank(x) == CHOOSE i \in 1..Len(Lexicon) : Lexicon[i] = x

\* v < w for two non-missing cells of one column (numbers, timestamps, strings).
CellLess(v, w) ==
    IF v.k = "str" /\ w.k = "str" THEN StrRank(v.s) < StrRank(w.s)
    ELSE v.n < w.n

-----------------------------------------------------------------------------
(* Labels.                                                                 *)

LowerLetters ==
    << "a", "b", "c", "d", "e", "f", "g", "h", "i", "j", "k", "l", "m",
       "n", "o", "p", "q", "r", "s", "t", "u", "v", "w", "x", "y", "z" >>

UpperLetters ==
    << "A", "B", "C", "D", "E", "F", "G", "H", "I", "J", "K", "L", "M",
       "N", "O", "P", "Q", "R", "S", "T", "U", "V", "W", "X", "Y", "Z" >>

nYear == << "y", "e", "a", "r" >>

nMonth == << "m", "o", "n", "t", "h" >>

nDay == << "d", "a", "y" >>

nSeason == << "s", "e", "a", "s", "o", "n" >>

nSaleDate == << " ", "S", "a", "l", "e", "-", "D", "a", "t", "e", " " >>

nAmount == << "A", "m", "o", "u", "n", "t" >>

nRegion == << "R", "e", "g", "i", "o", "n" >>

nT == << "t" >>

nA == << "a" >>

nB == << "b" >>

nC == << "c" >>

nG == << "g" >>

nAbsent == << "z", "z" >>

-----------------------------------------------------------------------------
(* DataFrame primitives.                                                   *)

Column(name, dtype, cat, vals) ==
    [name |-> name, dtype |-> dtype, cat |-> cat, vals |-> vals]

Kind(col) == IF col.cat THEN "category" ELSE col.dtype

Names(cols) == [i \in 1..Len(cols) |-> cols[i].name]

HasCol(cols, name) == \E i \in 1..Len(cols) : cols[i].name = name

\* df[name]
GetItem(cols, name) ==
    cols[CHOOSE i \in 1..Len(cols) : cols[i].name = name]

\* df[name] = col : an existing label keeps its position, a new one is appended
SetItem(cols, col) ==
    IF HasCol(cols, col.name)
    THEN [i \in 1..Len(cols) |->
            IF cols[i].name = col.name THEN col ELSE cols[i]]
    ELSE Append(cols, col)

IsNumber(col) == ~col.cat /\ col.dtype = "number"

InList(name, list) == \E i \in 1..Len(list) : list[i] = name

NRows(cols) == IF Len(cols) = 0 THEN 0 ELSE Len(cols[1].vals)

Raise(e) == [kind |-> "raise", same |-> FALSE, cols |-> <<>>, report |-> <<>>, err |-> e]

ReturnDf(cols, same) ==
    [kind |-> "df", same |-> same, cols |-> cols, report |-> <<>>, err |-> "none"]

ReturnReport(kind, report) ==
    [kind |-> kind, same |-> FALSE, cols |-> <<>>, report |-> report, err |-> "none"]

NoCall ==
    [fn |-> "none", sw |-> <<>>, time_var |-> <<>>, list |-> <<>>, omitted |-> FALSE]

NoReturn == [kind |-> "none", same |-> FALSE, cols |-> <<>>, report |-> <<>>, err |-> "none"]

EmptyDefaults == [exclude_vars |-> <<>>, add_vars |-> <<>>, exclude_list |-> <<>>]

-----------------------------------------------------------------------------
(* clean_headers                                                           *)

\* Python's str.replace(old, new) on one label; new is a string of 0 or 1 characters
RECURSIVE str_replace(_, _, _)
str_replace(name, old, new) ==
    IF name = <<>> THEN <<>>
    ELSE (IF Head(name) = old THEN new ELSE <<Head(name)>>)
             \o str_replace(Tail(name), old, new)

lower_char(c) ==
    IF \E i \in 1..Len(UpperLetters) : UpperLetters[i] = c
    THEN LowerLetters[CHOOSE i \in 1..Len(UpperLetters) : UpperLetters[i] = c]
    ELSE c

upper_char(c) ==
    IF \E i \in 1..Len(LowerLetters) : LowerLetters[i] = c
    THEN UpperLetters[CHOOSE i \in 1..Len(LowerLetters) : LowerLetters[i] = c]
    ELSE c

str_lower(name) == [i \in 1..Len(name) |-> lower_char(name[i])]

str_upper(name) == [i \in 1..Len(name) |-> upper_char(name[i])]

remove_whitespace_step(name) == str_replace(name, " ", <<>>)

replace_dash_step(name) == str_replace(name, "-", <<"_">>)

\* the four steps on one label, in the order of the four if statements
format_header(name, remove_whitespace, replace_dash, lowercase, uppercase) ==
    LET n1 == IF remove_whitespace THEN remove_whitespace_step(name) ELSE name
        n2 == IF replace_dash THEN replace_dash_step(n1) ELSE n1
        n3 == IF lowercase THEN str_lower(n2) ELSE n2
        n4 == IF uppercase THEN str_upper(n3) ELSE n3
    IN  n4

clean_headers(remove_whitespace, replace_dash, lowercase, uppercase) ==
    /\ calls < MaxCalls
    /\ calls' = calls + 1
    /\ pre' = df
    /\ call' = [NoCall EXCEPT !.fn = "clean_headers",
                  !.sw = <<remove_whitespace, replace_dash, lowercase, uppercase>>]
    /\ df' = [i \in 1..Len(df) |->
                [df[i] EXCEPT !.name =
                    format_header(df[i].name, remove_whitespace, replace_dash,
                                  lowercase, uppercase)]]
    /\ ret' = ReturnDf(df', TRUE)
    /\ UNCHANGED defaults

-----------------------------------------------------------------------------
(* check_missing                                                           *)

CountNull(vals) == Cardinality({r \in 1..Len(vals) : isnull(vals[r])})

\* df.isnull().mean(): per column, the fraction num/den of missing rows
\* (den = 0, the mean of no rows, is NaN)
isnull_mean(cols) ==
    [i \in 1..Len(cols) |->
        [name |-> cols[i].name, num |-> CountNull(cols[i].vals),
         den |-> Len(cols[i].vals)]]

FracIsNaN(x) == x.den = 0

FracLess(x, y) == x.num * y.den < y.num * x.den

RemoveAt(s, i) == SubSeq(s, 1, i - 1) \o SubSeq(s, i + 1, Len(s))

\* the non-increasing orders of a series without NaN; the default sort is not
\* stable, so equal values may come out in any order
RECURSIVE descending(_)
descending(s) ==
    IF s = <<>> THEN {<<>>}
    ELSE UNION {{<<s[i]>> \o rest : rest \in descending(RemoveAt(s, i))} :
                  i \in {m \in 1..Len(s) : \A j \in 1..Len(s) : ~FracLess(s[m], s[j])}}

\* Faulty variant of sort_values: the series is left in column order
sort_values_unsorted(s) == {s}

\* Series.sort_values(ascending=False): the values in non-increasing order,
\* then the NaN entries in their original order (na_position='last')
sort_values(s) ==
    {d \o SelectSeq(s, FracIsNaN) :
        d \in descending(SelectSeq(s, LAMBDA x : ~FracIsNaN(x)))}

\* series * 100
times_100(s) == [i \in 1..Len(s) |-> [s[i] EXCEPT !.num = 100 * @]]

\* series.loc[series > 0]
positive_only(s) == SelectSeq(s, LAMBDA x : ~FracIsNaN(x) /\ x.num > 0)

check_missing ==
    /\ calls < MaxCalls
    /\ calls' = calls + 1
    /\ pre' = df
    /\ call' = [NoCall EXCEPT !.fn = "check_missing"]
    /\ \E sorted \in sort_values(isnull_mean(df)) :
          ret' = ReturnReport("missing", positive_only(times_100(sorted)))
    /\ UNCHANGED <<df, defaults>>

-----------------------------------------------------------------------------
(* check_negative                                                          *)

\* Faulty variant of cell_negative: <= written for <
cell_negative_or_zero(v) == v.k = "num" /\ v.n <= 0

\* df[var] < 0 on one cell: a comparison with NaN is False
cell_negative(v) == v.k = "num" /\ v.n < 0

\* any(df[var] < 0)
any_negative(col) == \E r \in 1..Len(col.vals) : cell_negative(col.vals[r])

vars_to_check(cols, exclude_vars) ==
    SelectSeq(cols, LAMBDA c : IsNumber(c) /\ ~InList(c.name, exclude_vars))

negative_report(cols, exclude_vars) ==
    LET checked == vars_to_check(cols, exclude_vars)
    IN  [i \in 1..Len(checked) |->
            [name |-> checked[i].name, flag |-> any_negative(checked[i])]]

check_negative(exclude_vars, omitted) ==
    LET list == IF omitted THEN defaults.exclude_vars ELSE exclude_vars
    IN  /\ calls < MaxCalls
        /\ calls' = calls + 1
        /\ pre' = df
        /\ call' = [NoCall EXCEPT !.fn = "check_negative", !.list = list,
                                  !.omitted = omitted]
        /\ ret' = ReturnReport("negative", negative_report(df, list))
        /\ UNCHANGED <<df, defaults>>

-----------------------------------------------------------------------------
(* create_time_vars                                                        *)

year_of(v) == v.n \div 10000

month_of(v) == (v.n \div 100) % 100

day_of(v) == v.n % 100

MonthNames ==
    << "January", "February", "March", "April", "May", "June", "July",
       "August", "September", "October", "November", "December" >>

DayNames ==
    << "Monday", "Tuesday", "Wednesday", "Thursday", "Friday", "Saturday",
       "Sunday" >>

MonthOffsets == << 0, 3, 2, 5, 0, 3, 5, 1, 4, 6, 2, 4 >>

\* day of the week of a Gregorian date, Monday = 0 (pandas' dayofweek)
weekday(v) ==
    LET y == IF month_of(v) < 3 THEN year_of(v) - 1 ELSE year_of(v)
        sunday0 == (y + (y \div 4) - (y \div 100) + (y \div 400)
                      + MonthOffsets[month_of(v)] + day_of(v)) % 7
    IN  (sunday0 + 6) % 7

\* Series.dt.year / .dt.month_name() / .dt.day_name() on one cell; NaT gives NaN
dt_year(v) == IF isnull(v) THEN NaN ELSE Num(year_of(v))

dt_month_name(v) == IF isnull(v) THEN NaN ELSE Str(MonthNames[month_of(v)])

dt_day_name(v) == IF isnull(v) THEN NaN ELSE Str(DayNames[weekday(v) + 1])

seasons ==
    << "Winter", "Winter", "Spring", "Spring", "Spring", "Summer",
       "Summer", "Summer", "Autumn", "Autumn", "Autumn", "Winter" >>

\* Faulty variant of month_to_season: the keys are range(0,12), December wrapping to 0
month_to_season_shifted(m) == seasons[(m % 12) + 1]

\* dict(zip(range(1,13), seasons))[m]
month_to_season(m) == seasons[m]

\* Series.dt.month.map(month_to_season) on one cell
dt_season(v) == IF isnull(v) THEN NaN ELSE Str(month_to_season(month_of(v)))

\* the .dt accessor exists for datetime columns and for categoricals of datetimes
is_datetimelike(col) == col.dtype = "datetime"

\* the right-hand side of the assignment of one block, on one cell
extracted(name, v) ==
    CASE name = nYear -> dt_year(v)
      [] name = nMonth -> dt_month_name(v)
      [] name = nDay -> dt_day_name(v)
      [] name = nSeason -> dt_season(v)

extracted_dtype(name) == IF name = nYear THEN "number" ELSE "object"

\* One "if switch:" block: df[name] = <extracted from df[time_var]> and the
\* astype('category') that follows.  s is the running state [cols, err] of the call.
time_step(s, time_var, name) ==
    IF s.err # "none" THEN s
    ELSE IF ~HasCol(s.cols, time_var) THEN [s EXCEPT !.err = "KeyError"]
    ELSE IF ~is_datetimelike(GetItem(s.cols, time_var))
         THEN [s EXCEPT !.err = "AttributeError"]
    ELSE LET src == GetItem(s.cols, time_var).vals
         IN  [s EXCEPT !.cols =
                SetItem(s.cols,
                    Column(name, extracted_dtype(name), TRUE,
                           [r \in 1..Len(src) |-> extracted(name, src[r])]))]

\* Faulty variant of time_steps: the season block comes before the day block
time_steps_swapped(cols, time_var, year, month, day, season) ==
    LET s0 == [cols |-> cols, err |-> "none"]
        s1 == IF year THEN time_step(s0, time_var, nYear) ELSE s0
        s2 == IF month THEN time_step(s1, time_var, nMonth) ELSE s1
        s3 == IF season THEN time_step(s2, time_var, nSeason) ELSE s2
        s4 == IF day THEN time_step(s3, time_var, nDay) ELSE s3
    IN  s4

\* the blocks run in the order year, month, day, season
time_steps(cols, time_var, year, month, day, season) ==
    LET s0 == [cols |-> cols, err |-> "none"]
        s1 == IF year THEN time_step(s0, time_var, nYear) ELSE s0
        s2 == IF month THEN time_step(s1, time_var, nMonth) ELSE s1
        s3 == IF day THEN time_step(s2, time_var, nDay) ELSE s2
        s4 == IF season THEN time_step(s3, time_var, nSeason) ELSE s3
    IN  s4

\* df.drop(time_var, axis=1): a new DataFrame without the column(s) of that label
drop_column(cols, time_var) == SelectSeq(cols, LAMBDA c : c.name # time_var)

\* what the call returns, given the caller's object after the four blocks
time_vars_return(s, time_var, drop) ==
    IF s.err # "none" THEN Raise(s.err)
    ELSE IF ~drop THEN ReturnDf(s.cols, TRUE)
    ELSE IF ~HasCol(s.cols, time_var) THEN Raise("KeyError")
    ELSE ReturnDf(drop_column(s.cols, time_var), FALSE)

create_time_vars(time_var, year, month, day, season, drop) ==
    LET s == time_steps(df, time_var, year, month, day, season)
    IN  /\ calls < MaxCalls
        /\ calls' = calls + 1
        /\ pre' = df
        /\ call' = [NoCall EXCEPT !.fn = "create_time_vars", !.time_var = time_var,
                                  !.sw = <<year, month, day, season, drop>>]
        /\ df' = s.cols
        /\ ret' = time_vars_return(s, time_var, drop)
        /\ UNCHANGED defaults

-----------------------------------------------------------------------------
(* convert_to_categorical                                                  *)

\* df.select_dtypes(exclude='number').columns.to_list()
non_number_names(cols) == Names(SelectSeq(cols, LAMBDA c : ~IsNumber(c)))

\* Faulty variant of cat_vars_of: add_vars is never appended
cat_vars_of_no_extra(cols, add_vars) == non_number_names(cols)

\* the list the loop runs over
cat_vars_of(cols, add_vars) ==
    IF Len(add_vars) > 0 THEN non_number_names(cols) \o add_vars
    ELSE non_number_names(cols)

\* Faulty variant of add_vars_after: the loop list aliases add_vars, so the
\* appended names land in the caller's (or the default) list
add_vars_after_shared(add_vars, cat_vars) == cat_vars

\* the add_vars list object after the call: only cat_vars is appended to
add_vars_after(add_vars, cat_vars) == add_vars

astype_category(col) == [col EXCEPT !.cat = TRUE]

\* for var in cat_vars: df[var] = df[var].astype('category')
RECURSIVE convert_loop(_, _)
convert_loop(s, todo) ==
    IF todo = <<>> \/ s.err # "none" THEN s
    ELSE IF ~HasCol(s.cols, Head(todo)) THEN [s EXCEPT !.err = "KeyError"]
    ELSE convert_loop(
            [s EXCEPT !.cols =
                SetItem(s.cols, astype_category(GetItem(s.cols, Head(todo))))],
            Tail(todo))

convert_to_categorical(add_vars, omitted) ==
    LET list == IF omitted THEN defaults.add_vars ELSE add_vars
        cat_vars == cat_vars_of(df, list)
        s == convert_loop([cols |-> df, err |-> "none"], cat_vars)
    IN  /\ calls < MaxCalls
        /\ calls' = calls + 1
        /\ pre' = df
        /\ call' = [NoCall EXCEPT !.fn = "convert_to_categorical", !.list = list,
                                  !.omitted = omitted]
        /\ df' = s.cols
        /\ ret' = IF s.err # "none" THEN Raise(s.err) ELSE ReturnDf(s.cols, TRUE)
        /\ defaults' = IF omitted
                       THEN [defaults EXCEPT !.add_vars = add_vars_after(list, cat_vars)]
                       ELSE defaults

-----------------------------------------------------------------------------
(* label_encode                                                            *)

\* Series.unique(): the distinct cells, a missing value being one of them
unique(vals) == {vals[r] : r \in 1..Len(vals)}

\* the least cell of a non-empty set, the missing value being the greatest
MinCell(S) ==
    CHOOSE v \in S : \A w \in S \ {v} :
        ~isnull(v) /\ (isnull(w) \/ CellLess(v, w))

\* LabelEncoder.fit: classes_ = the distinct values sorted, missing last
RECURSIVE classes_of(_)
classes_of(S) ==
    IF S = {} THEN <<>>
    ELSE IF Cardinality(S) = 1 THEN <<CHOOSE v \in S : TRUE>>
    ELSE <<MinCell(S)>> \o classes_of(S \ {MinCell(S)})

\* LabelEncoder.transform on one cell: its 0-based position in classes_
label_of(classes, v) == (CHOOSE i \in 1..Len(classes) : classes[i] = v) - 1

\* the columns with at most this many distinct values are encoded
max_unique == 2

fit_transform(col) ==
    LET classes == classes_of(unique(col.vals))
    IN  Column(col.name, "number", FALSE,
               [r \in 1..Len(col.vals) |-> Num(label_of(classes, col.vals[r]))])

\* Faulty variant of encode_var: the test on the number of distinct values is missing
encode_var_always(col) == fit_transform(col)

\* the body of the loop for one variable of vars_to_encode
encode_var(col) ==
    IF Cardinality(unique(col.vals)) <= max_unique THEN fit_transform(col) ELSE col

\* select_dtypes(include='category') minus exclude_list
to_encode(col, exclude_list) == col.cat /\ ~InList(col.name, exclude_list)

label_encode(exclude_list, omitted) ==
    LET list == IF omitted THEN defaults.exclude_list ELSE exclude_list
    IN  /\ calls < MaxCalls
        /\ calls' = calls + 1
        /\ pre' = df
        /\ call' = [NoCall EXCEPT !.fn = "label_encode", !.list = list,
                                  !.omitted = omitted]
        /\ df' = [i \in 1..Len(df) |->
                    IF to_encode(df[i], list) THEN encode_var(df[i]) ELSE df[i]]
        /\ ret' = ReturnDf(df', TRUE)
        /\ UNCHANGED defaults

-----------------------------------------------------------------------------
(* Input families.                                                         *)

\* the sequences over S of length at most max
UpTo(S, max) == UNION {[1..n -> S] : n \in 0..max}

Field(name, dtype, cat, of) == [name |-> name, dtype |-> dtype, cat |-> cat, of |-> of]

\* the frames of n rows with a column per field, its cells drawn from the field's set
RECURSIVE FramesOf(_, _)
FramesOf(schema, n) ==
    IF schema = <<>> THEN {<<>>}
    ELSE {<<Column(Head(schema).name, Head(schema).dtype, Head(schema).cat, v)>> \o rest :
            v \in [1..n -> Head(schema).of], rest \in FramesOf(Tail(schema), n)}

FramesUpTo(schema, max) == UNION {FramesOf(schema, n) : n \in 0..max}

Booleans4 == BOOLEAN \X BOOLEAN \X BOOLEAN \X BOOLEAN

Booleans5 == BOOLEAN \X BOOLEAN \X BOOLEAN \X BOOLEAN \X BOOLEAN

Start(frames) ==
    /\ df \in frames
    /\ pre = df
    /\ call = NoCall
    /\ ret = NoReturn
    /\ defaults = EmptyDefaults
    /\ calls = 0

-----------------------------------------------------------------------------
(* clean_headers alone, over every label of at most MaxNameLen characters. *)

HeaderChars == {"a", "B", " ", "\t", "-", "_"}

HeaderFrames ==
    {<<Column(name, "object", FALSE, <<Str("no")>>),
       Column(nAmount, "number", FALSE, <<Num(1)>>)>> :
     name \in UpTo(HeaderChars, MaxNameLen)}

InitHeaders == Start(HeaderFrames)

NextHeaders ==
    /\ calls = 0
    /\ \E sw \in Booleans4 : clean_headers(sw[1], sw[2], sw[3], sw[4])

SpecHeaders == InitHeaders /\ [][NextHeaders]_vars

-----------------------------------------------------------------------------
(* check_missing alone.                                                    *)

MissingSchema ==
    << Field(nA, "number", FALSE, {Num(1), NaN}),
       Field(nB, "object", FALSE, {Str("no"), NaN}),
       Field(nC, "number", FALSE, {Num(0), NaN}) >>

InitMissing == Start(FramesUpTo(MissingSchema, MaxRows))

NextMissing == calls = 0 /\ check_missing

SpecMissing == InitMissing /\ [][NextMissing]_vars

-----------------------------------------------------------------------------
(* check_negative alone.                                                   *)

NegativeSchema ==
    << Field(nA, "number", FALSE, {Num(-1), Num(0), Num(1), NaN}),
       Field(nB, "number", FALSE, {Num(-1), Num(1)}),
       Field(nC, "object", FALSE, {Str("no")}) >>

ExcludeVars == {<<>>, <<nA>>, <<nB>>, <<nA, nB>>, <<nC>>, <<nAbsent>>}

InitNegative == Start(FramesUpTo(NegativeSchema, MaxRows))

NextNegative ==
    /\ calls = 0
    /\ \/ \E exclude_vars \in ExcludeVars : check_negative(exclude_vars, FALSE)
       \/ check_negative(<<>>, TRUE)

SpecNegative == InitNegative /\ [][NextNegative]_vars

-----------------------------------------------------------------------------
(* create_time_vars alone: a date of every month, a frame that already has *)
(* a column called year, and source columns themselves called month or     *)
(* season.                                                                 *)

Dates == {Ts(2023, m, 15) : m \in 1..12} \cup {NaN}

TimeSchemas ==
    { << Field(nT, "datetime", FALSE, Dates),
         Field(nA, "number", FALSE, {Num(1)}) >>,
      << Field(nYear, "number", FALSE, {Num(7)}),
         Field(nT, "datetime", FALSE, Dates),
         Field(nA, "number", FALSE, {Num(1)}) >>,
      << Field(nMonth, "datetime", FALSE, Dates),
         Field(nA, "number", FALSE, {Num(1)}) >>,
      << Field(nA, "number", FALSE, {Num(1)}),
         Field(nSeason, "datetime", FALSE, Dates) >> }

InitTimeVars ==
    Start(UNION {FramesUpTo(schema, MaxTimeRows) : schema \in TimeSchemas})

NextTimeVars ==
    /\ calls = 0
    /\ \E time_var \in {df[i].name : i \in 1..Len(df)} \cup {nAbsent} :
       \E sw \in Booleans5 :
          create_time_vars(time_var, sw[1], sw[2], sw[3], sw[4], sw[5])

SpecTimeVars == InitTimeVars /\ [][NextTimeVars]_vars

-----------------------------------------------------------------------------
(* convert_to_categorical alone.                                           *)

CategoricalSchema ==
    << Field(nA, "number", FALSE, {Num(1), NaN}),
       Field(nB, "object", FALSE, {Str("no"), Str("yes")}),
       Field(nC, "object", TRUE, {Str("no"), NaN}),
       Field(nT, "datetime", FALSE, {Ts(2023, 7, 15)}) >>

AddVars ==
    {<<>>, <<nA>>, <<nA, nA>>, <<nB, nA>>, <<nAbsent>>, <<nA, nAbsent>>, <<nAbsent, nA>>}

InitCategorical == Start(FramesUpTo(CategoricalSchema, MaxRows))

NextCategorical ==
    /\ calls = 0
    /\ \/ \E add_vars \in AddVars : convert_to_categorical(add_vars, FALSE)
       \/ convert_to_categorical(<<>>, TRUE)

SpecCategorical == InitCategorical /\ [][NextCategorical]_vars

-----------------------------------------------------------------------------
(* label_encode alone.                                                     *)

EncodeSchema ==
    << Field(nC, "object", TRUE, {Str("no"), Str("yes"), Str("maybe"), NaN}),
       Field(nG, "number", TRUE, {Num(5), Num(7)}),
       Field(nB, "object", FALSE, {Str("yes")}) >>

ExcludeLists == {<<>>, <<nC>>, <<nG>>, <<nC, nG>>, <<nAbsent>>}

InitEncode == Start(FramesUpTo(EncodeSchema, MaxRows))

NextEncode ==
    /\ calls = 0
    /\ \/ \E exclude_list \in ExcludeLists : label_encode(exclude_list, FALSE)
       \/ label_encode(<<>>, TRUE)

SpecEncode == InitEncode /\ [][NextEncode]_vars

-----------------------------------------------------------------------------
(* Sessions of up to MaxCalls calls of the six functions on one DataFrame. *)

SaleRows ==
    { <<Ts(2023, 7, 15), Num(-5), Str("no")>>,
      <<Ts(2024, 12, 1), Num(3), Str("yes")>>,
      <<NaN, NaN, NaN>> }

SaleFrames ==
    {<<Column(nSaleDate, "datetime", FALSE, [r \in 1..Len(rows) |-> rows[r][1]]),
       Column(nAmount, "number", FALSE, [r \in 1..Len(rows) |-> rows[r][2]]),
       Column(nRegion, "object", FALSE, [r \in 1..Len(rows) |-> rows[r][3]])>> :
     rows \in UpTo(SaleRows, MaxRows)}

HeaderSwitches ==
    {<<TRUE, FALSE, FALSE, FALSE>>, <<TRUE, TRUE, TRUE, FALSE>>,
     <<TRUE, TRUE, TRUE, TRUE>>, <<FALSE, FALSE, FALSE, FALSE>>}

TimeSwitches ==
    {<<FALSE, FALSE, FALSE, TRUE, TRUE>>, <<TRUE, FALSE, FALSE, FALSE, FALSE>>}

Init == Start(SaleFrames)

Next ==
    \/ \E sw \in HeaderSwitches : clean_headers(sw[1], sw[2], sw[3], sw[4])
    \/ check_missing
    \/ check_negative(<<>>, TRUE)
    \/ check_negative(<<nAmount>>, FALSE)
    \/ \E time_var \in {df[1].name, nAbsent} : \E sw \in TimeSwitches :
          create_time_vars(time_var, sw[1], sw[2], sw[3], sw[4], sw[5])
    \/ convert_to_categorical(<<>>, TRUE)
    \/ \E add_vars \in {<<nAmount>>, <<nAbsent>>} : convert_to_categorical(add_vars, FALSE)
    \/ label_encode(<<>>, TRUE)
    \/ label_encode(<<nRegion>>, FALSE)

Spec == Init /\ [][Next]_vars

-----------------------------------------------------------------------------
(* Properties.                                                             *)

Count(name, c) == Cardinality({i \in 1..Len(name) : name[i] = c})

Whitespace == {" ", "\t"}

IsLowerLetter(c) == \E i \in 1..Len(LowerLetters) : LowerLetters[i] = c

\* C5: clean_headers with all four switches on yields labels that are uppercase,
\* hold no whitespace character and have an underscore for every dash of the
\* input; with all four switches off the labels are unchanged.
C5_FormattedHeaders ==
    call.fn = "clean_headers" =>
        /\ call.sw = <<TRUE, TRUE, TRUE, TRUE>> =>
              \A i \in 1..Len(df) :
                 /\ \A j \in 1..Len(df[i].name) :
                       /\ ~IsLowerLetter(df[i].name[j])
                       /\ df[i].name[j] \notin Whitespace
                 /\ Count(df[i].name, "-") = 0
                 /\ Count(df[i].name, "_") =
                       Count(pre[i].name, "_") + Count(pre[i].name, "-")
        /\ call.sw = <<FALSE, FALSE, FALSE, FALSE>> => Names(df) = Names(pre)

\* C3: every mutating function returns the caller's own DataFrame object, which
\* holds the result of the call.
C3_ReturnsCallersObject ==
    ret.kind = "df" => ret.same /\ ret.cols = df

\* C4: a call that fails leaves the caller's DataFrame exactly as it was before
\* the call.
C4_AllOrNothing ==
    ret.kind = "raise" => df = pre

\* C10: the module-level default lists are empty after any sequence of calls, and
\* a call that omits its list argument runs with the empty list.
C10_DefaultsStayEmpty ==
    /\ defaults = EmptyDefaults
    /\ call.omitted => call.list = <<>>

C10_Witness ==
    /\ calls >= 2
    /\ call.fn = "convert_to_categorical"
    /\ call.omitted
    /\ ret.kind = "df"
    /\ \E i \in 1..Len(pre) : ~IsNumber(pre[i]) /\ ~pre[i].cat

ColumnNamed(cols, name) == cols[CHOOSE i \in 1..Len(cols) : cols[i].name = name]

StrictlyNegative(v) == ~isnull(v) /\ v.n < 0

\* C7: the report of check_negative holds exactly the numeric columns that are
\* not excluded, each once; a column's flag is true exactly when one of its values
\* is strictly negative (so false for a column without rows); the DataFrame is
\* not changed.
C7_NegativeReport ==
    call.fn = "check_negative" =>
        /\ df = pre
        /\ {ret.report[e].name : e \in 1..Len(ret.report)} =
              {pre[i].name : i \in {j \in 1..Len(pre) :
                    Kind(pre[j]) = "number" /\ ~InList(pre[j].name, call.list)}}
        /\ \A e, f \in 1..Len(ret.report) :
              ret.report[e].name = ret.report[f].name => e = f
        /\ \A e \in 1..Len(ret.report) :
              LET col == ColumnNamed(pre, ret.report[e].name)
              IN  /\ ret.report[e].flag <=>
                        \E r \in 1..Len(col.vals) : StrictlyNegative(col.vals[r])
                  /\ Len(col.vals) = 0 => ~ret.report[e].flag

C7_Witness ==
    /\ call.fn = "check_negative"
    /\ \E i \in 1..Len(pre) : Kind(pre[i]) = "number" /\ InList(pre[i].name, call.list)
    /\ \E e \in 1..Len(ret.report) :
          /\ ~ret.report[e].flag
          /\ \E r \in 1..NRows(pre) : ColumnNamed(pre, ret.report[e].name).vals[r] = Num(0)
          /\ \E r \in 1..NRows(pre) : isnull(ColumnNamed(pre, ret.report[e].name).vals[r])

\* C9: the report of check_missing holds a column exactly when the column has a
\* missing value, each once; its percentage is 100 * missing rows / rows and lies
\* in [0, 100]; the percentages are in non-increasing order; the DataFrame is
\* not changed.
C9_MissingReport ==
    call.fn = "check_missing" =>
        /\ df = pre
        /\ {ret.report[e].name : e \in 1..Len(ret.report)} =
              {pre[i].name : i \in {j \in 1..Len(pre) :
                    \E r \in 1..Len(pre[j].vals) : isnull(pre[j].vals[r])}}
        /\ \A e, f \in 1..Len(ret.report) :
              ret.report[e].name = ret.report[f].name => e = f
        /\ \A e \in 1..Len(ret.report) :
              LET x == ret.report[e]
                  col == ColumnNamed(pre, x.name)
                  missing == Cardinality({r \in 1..Len(col.vals) : col.vals[r] = NaN})
              IN  /\ x.den > 0
                  /\ x.num * NRows(pre) = 100 * missing * x.den
                  /\ 0 <= x.num /\ x.num <= 100 * x.den
        /\ \A e, f \in 1..Len(ret.report) :
              e < f => ret.report[e].num * ret.report[f].den
                          >= ret.report[f].num * ret.report[e].den

C9_Witness ==
    /\ call.fn = "check_missing"
    /\ Len(ret.report) = 2
    /\ Len(pre) = 3
    /\ ret.report[1].num > ret.report[2].num
    /\ ret.report[1].name = pre[3].name
    /\ ret.report[2].name = pre[1].name

\* C8: a call of convert_to_categorical that returns has converted exactly the
\* columns that were not numeric and the columns named in add_vars (named once or
\* several times): each of them is categorical with the values it had, and every
\* other column keeps its kind and its values.
C8_Converted ==
    (call.fn = "convert_to_categorical" /\ ret.kind = "df") =>
        /\ Len(df) = Len(pre)
        /\ \A i \in 1..Len(pre) :
              LET selected == Kind(pre[i]) # "number" \/ InList(pre[i].name, call.list)
              IN  /\ df[i].name = pre[i].name
                  /\ df[i].vals = pre[i].vals
                  /\ selected => Kind(df[i]) = "category"
                  /\ ~selected => Kind(df[i]) = Kind(pre[i])

C8_Witness ==
    /\ call.fn = "convert_to_categorical"
    /\ ret.kind = "df"
    /\ call.list = <<nA, nA>>
    /\ NRows(pre) >= 2
    /\ \E i \in 1..Len(pre) : pre[i].name = nA /\ Kind(pre[i]) = "number"
                                 /\ Kind(df[i]) = "category"

\* w comes before v in the sorted order of a column's distinct values
\* (the missing value last)
SortsBefore(w, v) == w # v /\ ~isnull(w) /\ (isnull(v) \/ CellLess(w, v))

Distinct(col) == {col.vals[r] : r \in 1..Len(col.vals)}

\* C1: after label_encode, a categorical column that is not excluded and has at
\* most 2 distinct values (a missing value being one) holds, in each row, the
\* 0-based rank of the row's value among the column's sorted distinct values; a
\* categorical column with 3 or more distinct values is unchanged; an excluded
\* column is unchanged.
C1_LabelEncoded ==
    call.fn = "label_encode" =>
        /\ Len(df) = Len(pre)
        /\ \A i \in 1..Len(pre) :
              LET col == pre[i]
                  excluded == InList(col.name, call.list)
              IN  /\ excluded => df[i] = col
                  /\ (col.cat /\ ~excluded /\ Cardinality(Distinct(col)) >= 3)
                        => df[i] = col
                  /\ (col.cat /\ ~excluded /\ Cardinality(Distinct(col)) <= 2) =>
                        /\ df[i].name = col.name
                        /\ Len(df[i].vals) = Len(col.vals)
                        /\ \A r \in 1..Len(col.vals) :
                              df[i].vals[r] =
                                 Num(Cardinality({w \in Distinct(col) :
                                                    SortsBefore(w, col.vals[r])}))

C1_Witness ==
    /\ call.fn = "label_encode"
    /\ call.list = <<nG>>
    /\ pre[1].vals = <<Str("yes"), NaN, Str("yes")>>
    /\ df[1].vals = <<Num(0), Num(1), Num(0)>>
    /\ Cardinality(Distinct(pre[2])) = 2
    /\ df[2] = pre[2]

SeasonOfMonth(m) ==
    IF m \in {12, 1, 2} THEN "Winter"
    ELSE IF m \in {3, 4, 5} THEN "Spring"
    ELSE IF m \in {6, 7, 8} THEN "Summer"
    ELSE "Autumn"

\* C6: when create_time_vars returns with the season switch on, the season column
\* holds, row by row, Winter for a source timestamp of month 12, 1 or 2, Spring
\* for 3, 4, 5, Summer for 6, 7, 8 and Autumn for 9, 10, 11 (in the caller's
\* DataFrame, and in the returned one unless the source column was itself called
\* season and is dropped); every column has as many rows as before, and the
\* columns that were there and are not rewritten hold the same cells in the same
\* rows.
C6_Season ==
    (call.fn = "create_time_vars" /\ call.sw[4] /\ ret.kind = "df") =>
        LET src == ColumnNamed(pre, call.time_var).vals
            new == {nYear, nMonth, nDay, nSeason}
        IN  /\ HasCol(df, nSeason)
            /\ \A r \in 1..Len(src) :
                  src[r].k = "ts" =>
                     ColumnNamed(df, nSeason).vals[r] =
                        Str(SeasonOfMonth((src[r].n \div 100) % 100))
            /\ (~call.sw[5] \/ call.time_var # nSeason) =>
                  /\ HasCol(ret.cols, nSeason)
                  /\ ColumnNamed(ret.cols, nSeason) = ColumnNamed(df, nSeason)
            /\ \A i \in 1..Len(ret.cols) : Len(ret.cols[i].vals) = NRows(pre)
            /\ \A i \in 1..Len(df) : Len(df[i].vals) = NRows(pre)
            /\ \A i \in 1..Len(pre) :
                  (pre[i].name \notin new /\ HasCol(ret.cols, pre[i].name)) =>
                     ColumnNamed(ret.cols, pre[i].name).vals = pre[i].vals

C6_Witness ==
    /\ call.fn = "create_time_vars"
    /\ call.sw[4]
    /\ ret.kind = "df"
    /\ ColumnNamed(pre, call.time_var).vals = <<Ts(2023, 12, 15), Ts(2023, 6, 15)>>
    /\ ColumnNamed(ret.cols, nSeason).vals = <<Str("Winter"), Str("Summer")>>

Requested(sw) ==
    (IF sw[1] THEN <<nYear>> ELSE <<>>) \o (IF sw[2] THEN <<nMonth>> ELSE <<>>)
        \o (IF sw[3] THEN <<nDay>> ELSE <<>>) \o (IF sw[4] THEN <<nSeason>> ELSE <<>>)

Kept(cols, time_var, drop) ==
    IF drop THEN SelectSeq(cols, LAMBDA c : c.name # time_var) ELSE cols

\* the columns are the original ones in their order, the source column left out
\* when drop is set, then the requested new columns in the order year, month,
\* day, season
ColumnOrder ==
    LET kept == Kept(pre, call.time_var, call.sw[5])
    IN  /\ Names(ret.cols) = Names(kept) \o Requested(call.sw)
        /\ SubSeq(ret.cols, 1, Len(kept)) = kept
        /\ call.sw[5] => ~HasCol(ret.cols, call.time_var)

\* C2 as stated: for every DataFrame, the DataFrame returned by create_time_vars
\* has the original columns in their order (without the source column when drop
\* is set), unchanged, followed by the requested new columns in the order year,
\* month, day, season.
C2_ColumnOrder ==
    (call.fn = "create_time_vars" /\ ret.kind = "df") => ColumnOrder

\* C2 as amended: the same, for a DataFrame in which none of the requested new
\* names is already the name of a column.
C2_ColumnOrderOfNewNames ==
    (/\ call.fn = "create_time_vars"
     /\ ret.kind = "df"
     /\ \A j \in 1..Len(Requested(call.sw)) : ~HasCol(pre, Requested(call.sw)[j]))
        => ColumnOrder

C2_Witness ==
    /\ call.fn = "create_time_vars"
    /\ ret.kind = "df"
    /\ call.sw = <<TRUE, TRUE, TRUE, TRUE, TRUE>>
    /\ NRows(pre) = 2
    /\ Names(pre) = <<nT, nA>>
    /\ Names(ret.cols) = <<nA, nYear, nMonth, nDay, nSeason>>

=============================================================================
